---- MODULE Spec2Model ----
(***************************************************************************)
(* Release-deployment lookup of ARO-Tools: the option pipeline             *)
(* (Validate -> Complete), the tag-filtered paginated listing with the     *)
(* per-candidate download (list.Options.ListReleaseDeployments), the       *)
(* backward window search (last.Options.LastReleaseDeployment), and, each  *)
(* evaluated on its own, the filter builder, the component extractor,      *)
(* timeparse.ParseDuration, timeparse.FormatRelativeTime and the decoding  *)
(* of a release document (types.ReleaseDeployment.UnmarshalYAML).          *)
(*                                                                         *)
(* Time is counted in ticks, TicksPerSecond of them to the second, from    *)
(* Go's zero time.Time (ZeroTime).  A time.Duration is a signed integer of *)
(* DurationBits bits counted in ticks: Go's int64 nanosecond count         *)
(* restricted to the multiples of 2^(64 - DurationBits) ns, on which       *)
(* two's-complement addition is exactly addition modulo 2^DurationBits.    *)
(***************************************************************************)
EXTENDS Integers, Sequences, FiniteSets, TLC

\* ------------------------------------------------------------------ bounds
DurationBits == 4
TicksPerSecond == 2
MaxBlobs == 2
MaxLimit == 1
PageSize == 1

\* ------------------------------------------------------- time and duration
RECURSIVE Pow2(_)
Pow2(n) == IF n = 0 THEN 1 ELSE 2 * Pow2(n - 1)

MaxDuration == Pow2(DurationBits - 1) - 1
MinDuration == 0 - Pow2(DurationBits - 1)

\* Two's-complement result of an addition on time.Duration.
WrapDuration(x) == ((x - MinDuration) % Pow2(DurationBits)) + MinDuration

ZeroTime == 0
NowT == 9
IsZero(t) == t = ZeroTime

\* t.Format(time.RFC3339): the layout has no fractional seconds, so the
\* instant is cut down to its whole second.
FormatRFC3339(t) == t - (t % TicksPerSecond)

\* ------------------------------------------------------------------ inputs
StepInputs == {0, 2, MaxDuration - 2}
LookbackInputs == {0, 3, MaxDuration - 1}
SinceInputs == {ZeroTime, 6}
UntilInputs == {ZeroTime, 8}
BlobTimes == {4, 6, 7}
Environments == {"int", "dev"}
Containers == {"releases", ""}

\* What a release.yaml blob of the container holds:
\*   "ok"     decodes, names a region, and its components manifest extracts
\*   "noreg"  decodes and names no region
\*   "dl"     DownloadStream (or reading the body) fails
\*   "dec"    the release document does not decode
\*   "comp"   decodes, names a region, and its components manifest fails
Kinds == <<"ok", "noreg", "dl", "dec", "comp">>
KindSet == {Kinds[i] : i \in 1..Len(Kinds)}

\* Entries of a listing that are no candidates; their release documents are
\* never asked for:
\*   "other"   a blob whose name does not end in /release.yaml
\*   "notag"   a release.yaml listed without a timestamp tag
\*   "badtag"  a release.yaml whose timestamp tag is not an RFC3339 value
\* The service orders and selects every entry by ts, its own reading of the tag.
EntryKinds == <<"other", "notag", "badtag">>
EntryKindSet == {EntryKinds[i] : i \in 1..Len(EntryKinds)}

\* A release.yaml blob without content (no bytes, or comments only): a
\* candidate like any other when its timestamp tag parses.
BlankKinds == <<"blank">>

KindRank(k) ==
    CHOOSE i \in 1..Len(Kinds \o EntryKinds \o BlankKinds) :
        (Kinds \o EntryKinds \o BlankKinds)[i] = k

BlobLeq(a, b) == a.ts < b.ts \/ (a.ts = b.ts /\ KindRank(a.kind) <= KindRank(b.kind))

\* The containers of at most n blobs of the given kinds, blobs in name order.
StoragesOf(n, kinds) ==
    {s \in UNION {[1..m -> [ts : BlobTimes, kind : kinds]] : m \in 0..n} :
        \A i \in 1..(Len(s) - 1) : BlobLeq(s[i], s[i + 1])}

Storages == StoragesOf(MaxBlobs, KindSet)

Invs == {1, 2}
MainInvs == {1}

VARIABLES
    raw,        \* the last.RawOptions the caller filled in
    stage,      \* how far the options got: raw, rejected, validated, failed, completed
    validated,  \* the copy of Step and MaxLookback held by last.ValidatedOptions
    opts,       \* the completed last.Options with its shared ListOptions
    storage,    \* the container behind the service client, blobs in name order
    pageSize,   \* the most entries the service puts on one page of a listing
    inv,        \* the local variables of each invocation
    hist,       \* per invocation, every execution of ListReleaseDeployments so far
    input,      \* the function a caller evaluates on its own, and its argument
    output      \* what that function returned

vars == <<raw, stage, validated, opts, storage, pageSize, inv, hist, input, output>>


\* ------------------------------------------------------- option pipeline
ProdEnv == "prod"
StgEnv == "stg"
IntEnv == "int"

\* list.RawOptions.Validate
ListValidate(o) ==
    /\ o.StorageAccountURI # ""
    /\ o.StorageContainerName # ""
    /\ o.Environment # ""
    /\ o.ServiceGroupBase # ""
    /\ o.Environment \in {ProdEnv, StgEnv, IntEnv}
    /\ ~(o.Since > o.Until)

\* The three checks of last.RawOptions.Validate that follow list validation.
StepValid(o) == ~(o.Step <= 0)
LookbackValid(o) == ~(o.MaxLookback <= 0)

\* A validation that does not compare the lookback with the step.
LookbackUnchecked(o) == TRUE

LookbackCoversStep(o) == ~(o.MaxLookback < o.Step)

LastValidate(o) ==
    /\ ListValidate(o.RawOptions)
    /\ StepValid(o)
    /\ LookbackValid(o)
    /\ LookbackCoversStep(o)

RawOptionsInputs ==
    [RawOptions : [StorageAccountURI : {"https://aroreleases.blob.core.windows.net/"},
                   StorageContainerName : Containers,
                   Environment : Environments,
                   Since : SinceInputs,
                   Until : UntilInputs,
                   ServiceGroupBase : {"Microsoft.Azure.ARO.HCP"},
                   PipelineRevision : {""},
                   SourceRevision : {""},
                   IncludeComponents : BOOLEAN,
                   Limit : 0..MaxLimit],
     Step : StepInputs,
     MaxLookback : LookbackInputs]

NoValidated == [Step |-> 0, MaxLookback |-> 0]
NoOptions ==
    [ListOptions |-> [Environment |-> "", Since |-> ZeroTime, Until |-> ZeroTime,
                      ServiceGroupBase |-> "", PipelineRevision |-> "",
                      SourceRevision |-> "", StorageAccountURI |-> "",
                      StorageContainerName |-> "", IncludeComponents |-> FALSE,
                      Limit |-> 0],
     Step |-> 0, MaxLookback |-> 0]

\* list.ValidatedOptions.Complete: the fields copied into completedOptions.
ListComplete(o) ==
    [Environment |-> o.Environment, Since |-> o.Since, Until |-> o.Until,
     ServiceGroupBase |-> o.ServiceGroupBase, PipelineRevision |-> o.PipelineRevision,
     SourceRevision |-> o.SourceRevision, StorageAccountURI |-> o.StorageAccountURI,
     StorageContainerName |-> o.StorageContainerName,
     IncludeComponents |-> o.IncludeComponents, Limit |-> o.Limit]


\* ------------------------------------------------------------ the backend
NoMarker == 0
ReleaseFileName == "release.yaml"
ConfigFileName == "config.yaml"

\* A filter loop that takes every clause, enabled or not.
EnabledAll(filters) == filters

\* The loop over the clause table: the enabled ones, in the table's order.
Enabled(filters) == SelectSeq(filters, LAMBDA f : f.enabled)

\* opts.buildODataFilter: the container clause, then the enabled clauses in
\* their fixed order.  The filter is kept as the list of its clauses, as the
\* service reads it; FilterText is the string that is sent.
buildODataFilter(o) ==
    LET filters ==
            << [key |-> "environment", value |-> o.Environment, operator |-> "=",
                enabled |-> TRUE],
               [key |-> "serviceGroupBase", value |-> o.ServiceGroupBase,
                operator |-> "=", enabled |-> TRUE],
               [key |-> "timestamp", value |-> FormatRFC3339(o.Since),
                operator |-> ">=", enabled |-> TRUE],
               [key |-> "timestamp", value |-> FormatRFC3339(o.Until),
                operator |-> "<", enabled |-> TRUE],
               [key |-> "serviceGroup", value |-> "", operator |-> ">=",
                enabled |-> TRUE],
               [key |-> "revision", value |-> o.PipelineRevision, operator |-> "=",
                enabled |-> o.PipelineRevision # ""],
               [key |-> "upstreamRevision", value |-> o.SourceRevision,
                operator |-> "=", enabled |-> o.SourceRevision # ""] >>
        clause(f) == [key |-> f.key, operator |-> f.operator, value |-> f.value]
        enabled == Enabled(filters)
    IN  <<[key |-> "@container", operator |-> "=", value |-> o.StorageContainerName]>>
            \o [i \in 1..Len(enabled) |-> clause(enabled[i])]

\* The text of a formatted instant and of one clause (the two Sprintf
\* calls), and the clauses joined with " AND ".
TimeText(t) == ToString(t)
ClauseText(c) ==
    IF c.key = "@container"
    THEN "@container='" \o c.value \o "'"
    ELSE "\"" \o c.key \o "\"" \o c.operator \o "'"
            \o (IF c.key = "timestamp" THEN TimeText(c.value) ELSE c.value) \o "'"

RECURSIVE JoinAnd(_)
JoinAnd(texts) ==
    IF texts = <<>> THEN ""
    ELSE IF Len(texts) = 1 THEN texts[1]
    ELSE texts[1] \o " AND " \o JoinAnd(Tail(texts))

FilterText(filter) == JoinAnd([i \in 1..Len(filter) |-> ClauseText(filter[i])])

\* The service's evaluation of one clause against a blob's tags.  Every blob of
\* the container carries the queried environment, service group and
\* revisions, so only the timestamp clauses select.
ClauseHolds(b, c) ==
    IF c.key = "timestamp"
    THEN IF c.operator = ">=" THEN b.ts >= c.value ELSE b.ts < c.value
    ELSE TRUE

\* The names (positions in the container) of the blobs a filter selects.
MatchingBlobs(filter) ==
    SelectSeq([i \in 1..Len(storage) |-> i],
              LAMBDA i : \A k \in 1..Len(filter) : ClauseHolds(storage[i], filter[k]))

\* ServiceClient.FilterBlobs: one page of at most pageSize entries; the marker
\* of the next page is the position of its first entry.
FilterBlobs(filter, marker) ==
    LET all == MatchingBlobs(filter)
        first == IF marker = NoMarker THEN 1 ELSE marker
        last == IF first + pageSize - 1 < Len(all) THEN first + pageSize - 1 ELSE Len(all)
    IN  [Blobs |-> SubSeq(all, first, last),
         NextMarker |-> IF last < Len(all) THEN last + 1 ELSE NoMarker]

\* ------------------------------------------------ ListReleaseDeployments
\* What the page loop reads from one entry of a page.
HasReleaseSuffix(b) == b.kind # "other"
TimestampTag(b) == [ok |-> b.kind # "notag"]
ParseTimestamp(b) == [err |-> b.kind = "badtag", timestamp |-> b.ts]

\* A page loop that takes every release.yaml entry for a candidate.
CollectUnchecked(blobs, name) ==
    IF ~HasReleaseSuffix(storage[name]) THEN blobs ELSE Append(blobs, name)

\* One entry of a page: kept as a candidate when it is a release.yaml with a
\* timestamp tag that parses, passed over otherwise.
Collect(blobs, name) ==
    IF ~HasReleaseSuffix(storage[name])
    THEN blobs
    ELSE IF ~TimestampTag(storage[name]).ok
    THEN blobs
    ELSE IF ParseTimestamp(storage[name]).err
    THEN blobs
    ELSE Append(blobs, name)

\* The entries of one page, in the order the service lists them.
RECURSIVE CollectPage(_, _)
CollectPage(blobs, page) ==
    IF page = <<>>
    THEN blobs
    ELSE CollectPage(Collect(blobs, Head(page)), Tail(page))

\* A failed page request taken for the end of the listing.
PageErrorEndsListing(fetch) == [fetch EXCEPT !.failed = Len(fetch.markers)]

\* A failed page request ends the call with an error.
PageError(fetch) == [fetch EXCEPT !.err = TRUE, !.failed = Len(fetch.markers)]

\* A listing that takes the first page for the whole result.
FetchFirstPage(filter, marker, fetch, failAt) ==
    LET sent == [fetch EXCEPT !.markers = Append(@, marker)]
    IN  IF Len(sent.markers) = failAt
        THEN PageError(sent)
        ELSE [sent EXCEPT !.blobs = CollectPage(@, FilterBlobs(filter, marker).Blobs)]

\* The pagination loop; failAt is the request the backend fails (0: none).
RECURSIVE FetchLoop(_, _, _, _)
FetchLoop(filter, marker, fetch, failAt) ==
    LET sent == [fetch EXCEPT !.markers = Append(@, marker)]
    IN  IF Len(sent.markers) = failAt
        THEN PageError(sent)
        ELSE LET resp == FilterBlobs(filter, marker)
                 got == [sent EXCEPT !.blobs = CollectPage(@, resp.Blobs)]
             IN  IF resp.NextMarker = NoMarker
                 THEN got
                 ELSE FetchLoop(filter, resp.NextMarker, got, failAt)

\* sort.Slice with less = timestamp.After: some arrangement in which no blob
\* precedes a later one; the order of equal timestamps is not determined.
SortSlice(blobs) ==
    LET n == Len(blobs)
        perms == {p \in [1..n -> 1..n] : \A i, j \in 1..n : i # j => p[i] # p[j]}
    IN  {s \in {[i \in 1..n |-> blobs[p[i]]] : p \in perms} :
            \A i \in 1..(n - 1) : ~(storage[s[i + 1]].ts > storage[s[i]].ts)}

\* The limit is applied to the sorted candidates.
Truncate(o, blobs) ==
    IF o.Limit > 0 /\ o.Limit < Len(blobs) THEN SubSeq(blobs, 1, o.Limit) ELSE blobs

\* yaml.Unmarshal(content, &deployment): ReleaseDeployment.UnmarshalYAML makes
\* Components an empty mapping.  For content without a document yaml.Unmarshal
\* returns nil and calls nothing (the case downloadAndParseComponents tests
\* with len(root.Content) == 0): deployment keeps its zero value, with no
\* regions and a nil Components.  blob and ts name the candidate decoded.
Unmarshal(name) ==
    IF storage[name].kind = "blank"
    THEN [blob |-> name, ts |-> storage[name].ts, regions |-> 0, components |-> "nil"]
    ELSE [blob |-> name, ts |-> storage[name].ts,
          regions |-> IF storage[name].kind = "noreg" THEN 0 ELSE 1,
          components |-> "empty"]

\* opts.downloadAndParseComponents for the first region of a release.
downloadAndParseComponents(name) ==
    IF storage[name].kind = "comp"
    THEN [err |-> TRUE, components |-> "nil"]
    ELSE [err |-> FALSE, components |-> "extracted"]

\* opts.downloadAndParseRelease: the calls it makes and what it returns.
downloadAndParseRelease(o, name) ==
    LET release == <<[blob |-> name, file |-> ReleaseFileName]>>
        config == <<[blob |-> name, file |-> ConfigFileName]>>
        deployment == Unmarshal(name)
    IN  IF storage[name].kind = "dl"
        THEN [err |-> TRUE, deployment |-> <<>>, calls |-> release]
        ELSE IF storage[name].kind = "dec"
        THEN [err |-> TRUE, deployment |-> <<>>, calls |-> release]
        ELSE IF o.IncludeComponents /\ deployment.regions > 0
        THEN LET c == downloadAndParseComponents(name)
             IN  IF c.err
                 THEN [err |-> TRUE, deployment |-> <<>>, calls |-> release \o config]
                 ELSE [err |-> FALSE,
                       deployment |-> <<[deployment EXCEPT !.components = c.components]>>,
                       calls |-> release \o config]
        ELSE [err |-> FALSE, deployment |-> <<deployment>>, calls |-> release]

\* A download loop that returns the failure of a candidate.
AfterCandidateAborts(run, d) ==
    IF run.err
    THEN run
    ELSE IF d.err
    THEN [run EXCEPT !.err = TRUE, !.deployments = <<>>, !.downloads = @ \o d.calls]
    ELSE [run EXCEPT !.deployments = @ \o d.deployment, !.downloads = @ \o d.calls]

\* What the download loop does with the outcome of one candidate: a failure
\* is logged and the loop goes on to the next candidate.
AfterCandidate(run, d) ==
    [run EXCEPT !.deployments = @ \o d.deployment, !.downloads = @ \o d.calls]

RECURSIVE DownloadLoop(_, _, _)
DownloadLoop(o, i, run) ==
    IF i > Len(run.ranked)
    THEN run
    ELSE DownloadLoop(o, i + 1, AfterCandidate(run, downloadAndParseRelease(o, run.ranked[i])))

\* Every result one execution of ListReleaseDeployments can have when the
\* backend fails request failAt of the listing.
ListReleaseDeployments(o, failAt) ==
    LET filter == buildODataFilter(o)
        fetch == FetchLoop(filter, NoMarker,
                           [err |-> FALSE, failed |-> 0, blobs |-> <<>>, markers |-> <<>>],
                           failAt)
        run(ranked) == [err |-> fetch.err, deployments |-> <<>>,
                        window |-> [Since |-> o.Since, Until |-> o.Until],
                        filter |-> filter, markers |-> fetch.markers,
                        failed |-> fetch.failed, candidates |-> fetch.blobs,
                        collected |-> Len(fetch.blobs),
                        ranked |-> ranked, downloads |-> <<>>]
    IN  IF fetch.err \/ Len(fetch.blobs) = 0
        THEN {run(<<>>)}
        ELSE {DownloadLoop(o, 1, run(Truncate(o, sorted))) : sorted \in SortSlice(fetch.blobs)}

FailAts == 0..MaxBlobs

\* ---------------------------------------------------------- invocations
NoRet == [kind |-> "none", value |-> <<>>]
Idle ==
    [pc |-> "idle", call |-> "none", end |-> ZeroTime, origSince |-> ZeroTime,
     origUntil |-> ZeroTime, offset |-> 0, ret |-> NoRet]

MaxExecs == MaxDuration

\* No function is under evaluation.
NoInput == [fn |-> "none"]
NoOutput == [done |-> FALSE]

\* Nothing has been validated, completed or called.
Unstarted ==
    /\ stage = "raw"
    /\ validated = NoValidated
    /\ opts = NoOptions
    /\ storage = <<>>
    /\ pageSize = PageSize
    /\ inv = [p \in Invs |-> Idle]
    /\ hist = [p \in Invs |-> <<>>]

Init ==
    /\ raw \in RawOptionsInputs
    /\ Unstarted
    /\ input = NoInput
    /\ output = NoOutput

\* last.RawOptions.Validate
Validate ==
    /\ stage = "raw"
    /\ IF LastValidate(raw)
       THEN /\ stage' = "validated"
            /\ validated' = [Step |-> raw.Step, MaxLookback |-> raw.MaxLookback]
       ELSE /\ stage' = "rejected"
            /\ UNCHANGED validated
    /\ UNCHANGED <<raw, opts, storage, pageSize, inv, hist, input, output>>

\* last.ValidatedOptions.Complete, the service client bound to one of the
\* given containers behind a service of one of the given page sizes.
Complete(containers, pageSizes) ==
    /\ stage = "validated"
    /\ ListValidate(raw.RawOptions)
    /\ stage' = "completed"
    /\ opts' = [ListOptions |-> ListComplete(raw.RawOptions),
                Step |-> validated.Step, MaxLookback |-> validated.MaxLookback]
    /\ storage' \in containers
    /\ pageSize' \in pageSizes
    /\ UNCHANGED <<raw, validated, inv, hist, input, output>>

\* last.ValidatedOptions.Complete when the credential or the client cannot
\* be created.
CompleteFail ==
    /\ stage = "validated"
    /\ stage' = "failed"
    /\ UNCHANGED <<raw, validated, opts, storage, pageSize, inv, hist, input, output>>

\* The record of one execution of ListReleaseDeployments.
Executed(p, r) == hist' = [hist EXCEPT ![p] = Append(@, r)]

\* A caller runs ListReleaseDeployments on the shared ListOptions.
CallList(p) ==
    /\ stage = "completed"
    /\ inv[p].pc = "idle"
    /\ \E failAt \in FailAts : \E r \in ListReleaseDeployments(opts.ListOptions, failAt) :
          /\ Executed(p, r)
          /\ inv' = [inv EXCEPT ![p].pc = "done", ![p].call = "list",
                                ![p].ret = IF r.err
                                           THEN [kind |-> "error", value |-> <<>>]
                                           ELSE [kind |-> "list", value |-> r.deployments]]
    /\ UNCHANGED <<raw, stage, validated, opts, storage, pageSize, input, output>>

\* LastReleaseDeployment up to its loop: the anchor and the saved window.
Anchor(o) == IF IsZero(o.ListOptions.Until) THEN NowT ELSE o.ListOptions.Until

CallLast(p) ==
    /\ stage = "completed"
    /\ inv[p].pc = "idle"
    /\ inv' = [inv EXCEPT ![p].pc = "loop", ![p].call = "last",
                          ![p].end = Anchor(opts),
                          ![p].origSince = opts.ListOptions.Since,
                          ![p].origUntil = opts.ListOptions.Until,
                          ![p].offset = 0]
    /\ UNCHANGED <<raw, stage, validated, opts, storage, pageSize, hist, input, output>>

\* The loop condition, the window of an iteration and the loop increment.
LoopCond(offset, o) == offset < o.MaxLookback
WindowUntil(end, offset) == end + WrapDuration(0 - offset)
\* A window that is opened forwards from its end.
WindowSinceForwards(windowUntil, o) == windowUntil + o.Step
WindowSince(windowUntil, o) == windowUntil + WrapDuration(0 - o.Step)
NextOffset(offset, o) == WrapDuration(offset + o.Step)

\* The head of an iteration: the window is written to the shared ListOptions;
\* when the condition fails the search is exhausted.
Iterate(p) ==
    /\ inv[p].pc = "loop"
    /\ IF LoopCond(inv[p].offset, opts)
       THEN LET windowUntil == WindowUntil(inv[p].end, inv[p].offset)
                windowSince == WindowSince(windowUntil, opts)
            IN  /\ Len(hist[p]) < MaxExecs
                /\ opts' = [opts EXCEPT !.ListOptions.Since = windowSince,
                                        !.ListOptions.Until = windowUntil]
                /\ inv' = [inv EXCEPT ![p].pc = "query"]
       ELSE /\ inv' = [inv EXCEPT ![p].pc = "deferred",
                                  ![p].ret = [kind |-> "ErrNoDeploymentsFound", value |-> <<>>]]
            /\ UNCHANGED opts
    /\ UNCHANGED <<raw, stage, validated, storage, pageSize, hist, input, output>>

\* A search that returns on an error without its deferred function.
AfterQueryNoDefer(i, o, r) ==
    IF r.err
    THEN [i EXCEPT !.pc = "done", !.ret = [kind |-> "error", value |-> <<>>]]
    ELSE IF Len(r.deployments) > 0
    THEN [i EXCEPT !.pc = "deferred",
                   !.ret = [kind |-> "deployment", value |-> <<r.deployments[1]>>]]
    ELSE [i EXCEPT !.pc = "loop", !.offset = NextOffset(i.offset, o)]

\* A search that notes a hit and goes on to the next window.
AfterQueryKeepsLooking(i, o, r) ==
    IF r.err
    THEN [i EXCEPT !.pc = "deferred", !.ret = [kind |-> "error", value |-> <<>>]]
    ELSE IF Len(r.deployments) > 0
    THEN [i EXCEPT !.pc = "loop", !.offset = NextOffset(i.offset, o),
                   !.ret = [kind |-> "deployment", value |-> <<r.deployments[1]>>]]
    ELSE [i EXCEPT !.pc = "loop", !.offset = NextOffset(i.offset, o)]

\* What the search does with the result of a window's query.
AfterQuery(i, o, r) ==
    IF r.err
    THEN [i EXCEPT !.pc = "deferred", !.ret = [kind |-> "error", value |-> <<>>]]
    ELSE IF Len(r.deployments) > 0
    THEN [i EXCEPT !.pc = "deferred",
                   !.ret = [kind |-> "deployment", value |-> <<r.deployments[1]>>]]
    ELSE [i EXCEPT !.pc = "loop", !.offset = NextOffset(i.offset, o)]

\* The body of an iteration: one execution of ListReleaseDeployments.
Query(p) ==
    /\ inv[p].pc = "query"
    /\ \E failAt \in FailAts : \E r \in ListReleaseDeployments(opts.ListOptions, failAt) :
          /\ Executed(p, r)
          /\ inv' = [inv EXCEPT ![p] = AfterQuery(@, opts, r)]
    /\ UNCHANGED <<raw, stage, validated, opts, storage, pageSize, input, output>>

\* The deferred function: the saved window is written back.
Restore(o, i) ==
    [o EXCEPT !.ListOptions.Since = i.origSince, !.ListOptions.Until = i.origUntil]

Deferred(p) ==
    /\ inv[p].pc = "deferred"
    /\ opts' = Restore(opts, inv[p])
    /\ inv' = [inv EXCEPT ![p].pc = "done"]
    /\ UNCHANGED <<raw, stage, validated, storage, pageSize, hist, input, output>>

\* The steps of the invocations of a set.
Calls(ps) ==
    \E p \in ps :
        \/ CallList(p)
        \/ CallLast(p)
        \/ Iterate(p)
        \/ Query(p)
        \/ Deferred(p)

Next ==
    \/ Validate
    \/ Complete(Storages, {PageSize})
    \/ CompleteFail
    \/ Calls(MainInvs)

Spec == Init /\ [][Next]_vars

\* The same program against containers of one more release blob, each of
\* which either decodes or does not.
LimitStorages == StoragesOf(MaxBlobs + 1, {"ok", "dec"})

NextLimit ==
    \/ Validate
    \/ Complete(LimitStorages, {PageSize})
    \/ CompleteFail
    \/ Calls(MainInvs)

SpecLimit == Init /\ [][NextLimit]_vars

\* The same program against containers that also hold entries without a
\* usable timestamp tag and blobs of other names, behind a service whose pages
\* hold one entry or two; searches of short steps, without components.
TagStorages == StoragesOf(MaxBlobs + 1, {"ok"} \cup EntryKindSet)

NextTags ==
    \/ Validate
    \/ Complete(TagStorages, PageSize..(PageSize + 1))
    \/ CompleteFail
    \/ Calls(MainInvs)

InitTags ==
    /\ Init
    /\ raw.Step < MaxDuration - 2
    /\ raw.MaxLookback < MaxDuration - 1
    /\ ~raw.RawOptions.IncludeComponents

SpecTags == InitTags /\ [][NextTags]_vars

\* The same program against containers that may hold release.yaml blobs
\* without content.
BlankStorages == StoragesOf(MaxBlobs, {"ok", "noreg", "blank"})

NextBlank ==
    \/ Validate
    \/ Complete(BlankStorages, {PageSize})
    \/ CompleteFail
    \/ Calls(MainInvs)

SpecBlank == Init /\ [][NextBlank]_vars

\* Two invocations on the same Options, their steps interleaved, against
\* containers of at most one release, for steps that keep the offset of a
\* search from wrapping around.
ConcStorages == StoragesOf(MaxBlobs - 1, {"ok"})

NextConc ==
    \/ Validate
    \/ Complete(ConcStorages, {PageSize})
    \/ CompleteFail
    \/ Calls(Invs)

InitConc == Init /\ raw.Step < MaxDuration - 2

SpecConc == InitConc /\ [][NextConc]_vars

\* ------------------------------------------------ functions on their own
\* Text that is taken apart is a sequence of one-character strings.
Sha256Prefix == <<"s", "h", "a", "2", "5", "6", ":">>

isUpper(ch) == ch \in {"A", "B", "C", "D", "T", "Z"}
isLower(ch) == ch \in {"a", "b", "c", "d", "e", "f", "g", "i", "m", "o", "p", "s", "t", "y", "z"}
isSpace(ch) == ch \in {" "}
isDelimiter(ch) == ch = "-" \/ ch = "_" \/ isSpace(ch)
toLower(ch) ==
    CASE ch = "A" -> "a" [] ch = "B" -> "b" [] ch = "C" -> "c" [] ch = "D" -> "d"
      [] ch = "T" -> "t" [] ch = "Z" -> "z" [] OTHER -> ch

\* strings.TrimSpace
RECURSIVE TrimSpace(_)
TrimSpace(s) ==
    IF s # <<>> /\ isSpace(Head(s)) THEN TrimSpace(Tail(s))
    ELSE IF s # <<>> /\ isSpace(s[Len(s)]) THEN TrimSpace(SubSeq(s, 1, Len(s) - 1))
    ELSE s

\* strcase.KebabCase: the words of s in lower case, joined with '-'.  The loop
\* looks at each character between its predecessor and its successor; NUL
\* stands for the missing neighbour at either end.
NUL == ""
RECURSIVE delimiterCase(_, _, _)
delimiterCase(s, i, buffer) ==
    LET prev == IF i > 1 THEN s[i - 1] ELSE NUL
        curr == s[i]
    IN  IF i > Len(s)
        THEN buffer
        ELSE IF i = Len(s)
        THEN (IF isUpper(curr) /\ isLower(prev) /\ prev # NUL
              THEN buffer \o <<"-">> ELSE buffer) \o <<toLower(curr)>>
        ELSE LET next == s[i + 1]
             IN  delimiterCase(s, i + 1,
                    IF isDelimiter(curr)
                    THEN (IF ~isDelimiter(prev) THEN buffer \o <<"-">> ELSE buffer)
                    ELSE IF isUpper(curr)
                    THEN (IF isLower(prev) \/ (isUpper(prev) /\ isLower(next))
                          THEN buffer \o <<"-">> ELSE buffer) \o <<toLower(curr)>>
                    ELSE buffer \o <<toLower(curr)>>)

KebabCase(s) == delimiterCase(TrimSpace(s), 1, <<>>)

\* strings.Join, strings.TrimPrefix and strconv.Itoa
RECURSIVE Join(_, _)
Join(parts, sep) ==
    IF parts = <<>> THEN <<>>
    ELSE IF Len(parts) = 1 THEN parts[1]
    ELSE parts[1] \o sep \o Join(Tail(parts), sep)

TrimPrefix(s, prefix) ==
    IF Len(s) >= Len(prefix) /\ SubSeq(s, 1, Len(prefix)) = prefix
    THEN SubSeq(s, Len(prefix) + 1, Len(s))
    ELSE s

RECURSIVE Itoa(_)
Itoa(i) ==
    LET digit(d) == <<"0", "1", "2", "3", "4", "5", "6", "7", "8", "9">>[d + 1]
    IN  IF i < 10 THEN <<digit(i)>> ELSE Itoa(i \div 10) \o <<digit(i % 10)>>

\* yaml.Node: the fields the walk reads.
ScalarNode(tag, value) == [Kind |-> "scalar", Tag |-> tag, Value |-> value, Content |-> <<>>]
MappingNode(content) == [Kind |-> "mapping", Tag |-> "!!map", Value |-> <<>>, Content |-> content]
SequenceNode(content) == [Kind |-> "sequence", Tag |-> "!!seq", Value |-> <<>>, Content |-> content]
DocumentNode(content) == [Kind |-> "document", Tag |-> "", Value |-> <<>>, Content |-> content]

\* A walk that keeps the whole path of a leaf as its name.
LeafKeepsPath(n, path, components) ==
    IF n.Tag # "!!str" \/ n.Value = <<>>
    THEN components
    ELSE IF Len(path) = 0
    THEN components
    ELSE LET nameParts == [i \in 1..Len(path) |-> KebabCase(path[i])]
             name == Join(nameParts, <<".">>)
         IN  [k \in DOMAIN components \cup {name} |->
                 IF k = name THEN TrimPrefix(n.Value, Sha256Prefix) ELSE components[k]]

\* case yaml.ScalarNode of the walk: a scalar that is no non-empty string, or
\* that has no path above it, is logged and left out; any other is stored
\* under the kebab-cased path without its last segment, its sha256: prefix
\* removed.
Leaf(n, path, components) ==
    IF n.Tag # "!!str" \/ n.Value = <<>>
    THEN components
    ELSE IF Len(path) = 0
    THEN components
    ELSE LET nameParts == [i \in 1..(Len(path) - 1) |-> KebabCase(path[i])]
             name == Join(nameParts, <<".">>)
         IN  [k \in DOMAIN components \cup {name} |->
                 IF k = name THEN TrimPrefix(n.Value, Sha256Prefix) ELSE components[k]]

\* walk, with the components mapping it fills passed along; i is the loop
\* index of a mapping or a sequence.
RECURSIVE walk(_, _, _), walkMapping(_, _, _, _), walkSequence(_, _, _, _)
walk(n, path, components) ==
    CASE n.Kind = "mapping" -> walkMapping(n, 0, path, components)
      [] n.Kind = "sequence" -> walkSequence(n, 0, path, components)
      [] n.Kind = "scalar" -> Leaf(n, path, components)
      [] OTHER -> components

walkMapping(n, i, path, components) ==
    IF ~(i < Len(n.Content))
    THEN components
    ELSE LET keyNode == n.Content[i + 1]
             valNode == n.Content[i + 2]
         IN  walkMapping(n, i + 2, path,
                         walk(valNode, Append(path, keyNode.Value), components))

walkSequence(n, i, path, components) ==
    IF ~(i < Len(n.Content))
    THEN components
    ELSE walkSequence(n, i + 1, path,
                      walk(n.Content[i + 1], Append(path, Itoa(i)), components))

\* opts.downloadAndParseComponents from the download of config.yaml on:
\* blob.state says whether the download and the YAML parse succeed, blob.root
\* is the parsed document.
NoComponents == [k \in {} |-> <<>>]
parseComponents(blob) ==
    IF blob.state = "missing" \/ blob.state = "garbled"
    THEN [err |-> TRUE, components |-> NoComponents]
    ELSE IF Len(blob.root.Content) = 0
    THEN [err |-> TRUE, components |-> NoComponents]
    ELSE [err |-> FALSE, components |-> walk(blob.root.Content[1], <<>>, NoComponents)]

\* The caller has filled in nothing.
NoRaw ==
    [RawOptions |-> [StorageAccountURI |-> "", StorageContainerName |-> "",
                     Environment |-> "", Since |-> ZeroTime, Until |-> ZeroTime,
                     ServiceGroupBase |-> "", PipelineRevision |-> "",
                     SourceRevision |-> "", IncludeComponents |-> FALSE, Limit |-> 0],
     Step |-> 0, MaxLookback |-> 0]

\* Component manifests: scalars, flat mappings and sequences of one or two
\* scalars (two-entry mappings of digests and tags only), and up to
\* MaxNesting single-entry mappings or sequences around them.
MaxNesting == 2

DeadBeef == <<"d", "e", "a", "d", "b", "e", "e", "f">>
KeyInputs ==
    {<<"a">>, <<"b">>, <<"d", "i", "g", "e", "s", "t">>, <<"m", "y", "C", "o", "m", "p">>}
ScalarInputs ==
    {ScalarNode("!!str", Sha256Prefix \o DeadBeef),
     ScalarNode("!!str", Sha256Prefix \o Sha256Prefix \o <<"d">>),
     ScalarNode("!!str", <<"t", "a", "g">>),
     ScalarNode("!!str", <<>>),
     ScalarNode("!!int", <<"4", "2">>)}
ImageInputs ==
    {ScalarNode("!!str", Sha256Prefix \o DeadBeef), ScalarNode("!!str", <<"t", "a", "g">>)}
KeyNodes == {ScalarNode("!!str", k) : k \in KeyInputs}

FlatNodes ==
    ScalarInputs
      \cup {MappingNode(<<>>)}
      \cup {MappingNode(<<k, v>>) : k \in KeyNodes, v \in ScalarInputs}
      \cup {MappingNode(<<k, v, l, w>>) : k, l \in KeyNodes, v, w \in ImageInputs}
      \cup {SequenceNode(<<v>>) : v \in ScalarInputs}
      \cup {SequenceNode(<<v, w>>) : v, w \in ScalarInputs}

RECURSIVE NestedNodes(_)
NestedNodes(d) ==
    IF d = 0
    THEN FlatNodes
    ELSE NestedNodes(d - 1)
           \cup {MappingNode(<<k, n>>) : k \in KeyNodes, n \in NestedNodes(d - 1)}
           \cup {SequenceNode(<<n>>) : n \in NestedNodes(d - 1)}

ComponentInputs(nesting) ==
    [fn : {"downloadAndParseComponents"},
     arg : {[state |-> s, root |-> DocumentNode(<<>>)] : s \in {"missing", "garbled", "yaml"}}
             \cup {[state |-> "yaml", root |-> DocumentNode(<<n>>)] :
                      n \in NestedNodes(nesting)}]

InitComponents ==
    /\ raw = NoRaw
    /\ Unstarted
    /\ input \in ComponentInputs(MaxNesting)
    /\ output = NoOutput

\* One evaluation of downloadAndParseComponents.
EvalComponents ==
    /\ input.fn = "downloadAndParseComponents"
    /\ ~output.done
    /\ output' = [done |-> TRUE, ret |-> parseComponents(input.arg)]
    /\ UNCHANGED <<raw, stage, validated, opts, storage, pageSize, inv, hist, input>>

NextComponents == EvalComponents

SpecComponents == InitComponents /\ [][NextComponents]_vars

\* Completed list options for the filter builder on its own.
RevisionInputs == {"", "4f2a9c1"}
FilterInputs ==
    [fn : {"buildODataFilter"},
     arg : [Environment : {ProdEnv, IntEnv}, Since : SinceInputs, Until : UntilInputs,
            ServiceGroupBase : {"Microsoft.Azure.ARO.HCP"},
            PipelineRevision : RevisionInputs, SourceRevision : RevisionInputs,
            StorageAccountURI : {"https://aroreleases.blob.core.windows.net/"},
            StorageContainerName : {"releases", "staging"},
            IncludeComponents : {FALSE}, Limit : 0..MaxLimit]]

InitFilter ==
    /\ raw = NoRaw
    /\ Unstarted
    /\ input \in FilterInputs
    /\ output = NoOutput

\* One evaluation of buildODataFilter.
EvalFilter ==
    /\ input.fn = "buildODataFilter"
    /\ ~output.done
    /\ output' = [done |-> TRUE, ret |-> FilterText(buildODataFilter(input.arg))]
    /\ UNCHANGED <<raw, stage, validated, opts, storage, pageSize, inv, hist, input>>

NextFilter == EvalFilter

SpecFilter == InitFilter /\ [][NextFilter]_vars

\* ---------------------------------------------------------------- timeparse
\* Nanosecond counts are natural numbers written in limbs, lowest first, so
\* that products beyond the range of an int are exact.  An int and a
\* time.Duration are the IntBits lowest bits of such a number, read in two's
\* complement.
IntBits == 64
LimbBase == Pow2(16)
IntLimbs == IntBits \div 16

\* x * c + carry, exactly, for a small factor c.
RECURSIVE MulAdd(_, _, _)
MulAdd(x, c, carry) ==
    IF x = <<>>
    THEN IF carry = 0 THEN <<>> ELSE <<carry>>
    ELSE LET t == Head(x) * c + carry
         IN  <<t % LimbBase>> \o MulAdd(Tail(x), c, t \div LimbBase)

RECURSIVE Normalize(_)
Normalize(x) ==
    IF x # <<>> /\ x[Len(x)] = 0 THEN Normalize(SubSeq(x, 1, Len(x) - 1)) ELSE x

\* The bits an int64 keeps of a number, and whether it keeps all of them
\* with the sign bit clear.
Wrap64(x) == [i \in 1..IntLimbs |-> IF i <= Len(x) THEN x[i] ELSE 0]
FitsInt64(x) ==
    LET n == Normalize(x)
    IN  Len(n) < IntLimbs \/ (Len(n) = IntLimbs /\ n[IntLimbs] < LimbBase \div 2)

\* Multiplication of a time.Duration by a constant: the product wraps around.
Mul64(d, c) == Wrap64(MulAdd(d, c, 0))

\* d * time.Hour, the constant 60 * 60 * 1000 * 1000 * 1000 taken factor by
\* factor; modulo 2^64 the product is the same.
MulHour(d) == Mul64(Mul64(Mul64(Mul64(Mul64(d, 1000), 1000), 1000), 60), 60)

\* The number a string of decimal digits denotes.
RECURSIVE FromDigits(_, _)
FromDigits(digits, acc) ==
    IF digits = <<>> THEN acc ELSE FromDigits(Tail(digits), MulAdd(acc, 10, Head(digits)))

\* strconv.Atoi on a string of digits: a value out of the range of int is an
\* error.
Atoi(digits) ==
    LET n == FromDigits(digits, <<>>)
    IN  IF FitsInt64(n) THEN [err |-> FALSE, value |-> Wrap64(n)]
        ELSE [err |-> TRUE, value |-> Wrap64(<<>>)]

ParseError == [err |-> TRUE, d |-> Wrap64(<<>>)]

\* time.ParseDuration on <digits><unit>: it knows the unit h and not d or w,
\* and reports a value beyond the range of a Duration as an error.
StdParseDuration(s) ==
    LET n == FromDigits(s.digits, <<>>)
        hours == MulAdd(MulAdd(MulAdd(MulAdd(MulAdd(n, 1000, 0), 1000, 0), 1000, 0), 60, 0), 60, 0)
    IN  IF s.digits # <<>> /\ s.unit = "h" /\ FitsInt64(hours)
        THEN [err |-> FALSE, d |-> Wrap64(hours)]
        ELSE ParseError

\* case "d": time.Duration(value) * 24 * time.Hour
Days(value) == [err |-> FALSE, d |-> MulHour(Mul64(value, 24))]

\* case "w": time.Duration(value) * 7 * 24 * time.Hour
Weeks(value) == [err |-> FALSE, d |-> MulHour(Mul64(Mul64(value, 7), 24))]

\* timeparse.ParseDuration on the string <digits><unit>.
ParseDuration(s) ==
    LET std == StdParseDuration(s)
        matches == s.digits # <<>> /\ s.unit \in {"d", "w"}
        value == Atoi(s.digits)
    IN  IF ~std.err THEN std
        ELSE IF ~matches THEN ParseError
        ELSE IF value.err THEN ParseError
        ELSE IF s.unit = "d" THEN Days(value.value)
        ELSE Weeks(value.value)

\* The units of time.Duration, in ticks.
Second == TicksPerSecond
Minute == 60 * Second
Hour == 60 * Minute

\* int(d.Minutes()), int(d.Hours()) and int(d.Hours() / 24): the float is the
\* whole count plus a fraction below one, which the conversion cuts off.
IntMinutes(d) == d \div Minute
IntHoursRoundedUp(d) == (d + Hour - 1) \div Hour
IntHours(d) == d \div Hour
IntDays(d) == IntHours(d) \div 24

\* fmt.Sprintf("%d <unit>s", n)
Plural(n, unit) == ToString(n) \o " " \o unit \o "s"

\* timeparse.FormatRelativeTime
FormatRelativeTime(d) ==
    LET minutes == IntMinutes(d)
        hours == IntHours(d)
        days == IntDays(d)
        weeks == days \div 7
        months == days \div 30
        years == days \div 365
    IN  IF d < Minute THEN "less than a minute"
        ELSE IF d < Hour
        THEN (IF minutes = 1 THEN "1 minute" ELSE Plural(minutes, "minute"))
        ELSE IF d < 24 * Hour
        THEN (IF hours = 1 THEN "1 hour" ELSE Plural(hours, "hour"))
        ELSE IF days = 1 THEN "1 day"
        ELSE IF days <= 28 THEN Plural(days, "day")
        ELSE IF weeks = 1 THEN "1 week"
        ELSE IF weeks < 4 THEN Plural(weeks, "week")
        ELSE IF months = 1 THEN "1 month"
        ELSE IF months < 12 THEN Plural(months, "month")
        ELSE IF years = 1 THEN "1 year"
        ELSE Plural(years, "year")

\* Duration strings: every count up to MaxCount, the counts around the end of
\* the range of a Duration, and two long strings of digits; each with the
\* units d, w and h and with a unit no parser knows.
MaxCount == 60

RECURSIVE Decimal(_)
Decimal(n) == IF n < 10 THEN <<n>> ELSE Decimal(n \div 10) \o <<n % 10>>

DigitInputs ==
    {<<>>, <<0, 0, 7>>, [i \in 1..19 |-> IF i = 1 THEN 1 ELSE 0], [i \in 1..20 |-> 9]}
      \cup {Decimal(n) : n \in 0..MaxCount}
      \cup {Decimal(n) : n \in {15250, 15251, 106751, 106752, 213504, 2562047, 2562048}}

ParseInputs == [fn : {"ParseDuration"}, arg : [digits : DigitInputs, unit : {"d", "w", "h", "x"}]]

\* Durations to format: every count up to MaxCount of seconds, minutes, hours
\* and days, each with a tick or a second more or less, some longer spans and
\* a negative one.
FormatInputs ==
    [fn : {"FormatRelativeTime"},
     arg : {k * u + e : k \in 0..MaxCount, u \in {Second, Minute, Hour, 24 * Hour},
                       e \in {0 - Second, 0 - 1, 0, 1, Second}}
             \cup {24 * Hour - Minute}
             \cup {k * 24 * Hour : k \in {89, 359, 360, 364, 365, 366, 729, 730, 1000}}]

InitTimeparse ==
    /\ raw = NoRaw
    /\ Unstarted
    /\ input \in ParseInputs \cup FormatInputs
    /\ output = NoOutput

\* One evaluation of ParseDuration.
EvalParseDuration ==
    /\ input.fn = "ParseDuration"
    /\ ~output.done
    /\ output' = [done |-> TRUE, ret |-> ParseDuration(input.arg)]
    /\ UNCHANGED <<raw, stage, validated, opts, storage, pageSize, inv, hist, input>>

\* One evaluation of FormatRelativeTime.
EvalFormatRelativeTime ==
    /\ input.fn = "FormatRelativeTime"
    /\ ~output.done
    /\ output' = [done |-> TRUE, ret |-> FormatRelativeTime(input.arg)]
    /\ UNCHANGED <<raw, stage, validated, opts, storage, pageSize, inv, hist, input>>

NextTimeparse ==
    \/ EvalParseDuration
    \/ EvalFormatRelativeTime

SpecTimeparse == InitTimeparse /\ [][NextTimeparse]_vars

\* ------------------------------------------ ReleaseDeployment.UnmarshalYAML
\* A release.yaml document: the revision keys it carries with their values,
\* its regionConfigs, and whether yaml decodes it into fileData at all.
RevisionKeys == {"revision", "upstreamRevision", "sourceRevision", "pipelineRevision"}
RevisionValues == {"43697e5fa59a", "000779a4"}
RegionInputs == {<<>>, <<"uksouth">>, <<"eastus", "westus">>}

ReleaseInputs ==
    [fn : {"UnmarshalYAML"},
     arg : [fields : UNION {[keys -> RevisionValues] : keys \in SUBSET RevisionKeys},
            regionConfigs : RegionInputs,
            decodes : BOOLEAN]]

\* unmarshal(&fileData): a field of fileData takes the value of the key its
\* yaml tag names and keeps the zero value when the document has no such key;
\* a key no tag of fileData names is passed over.
FileDataTags == {"revision", "upstreamRevision"}
FileData(doc) ==
    [key \in FileDataTags |-> IF key \in DOMAIN doc.fields THEN doc.fields[key] ELSE ""]

\* ReleaseDeployment.UnmarshalYAML.
UnmarshalYAML(doc) ==
    IF ~doc.decodes
    THEN [err |-> TRUE]
    ELSE LET fileData == FileData(doc)
         IN  [err |-> FALSE,
              Metadata |-> [ReleaseId |-> [SourceRevision |-> fileData["upstreamRevision"],
                                           PipelineRevision |-> fileData["revision"]]],
              Target |-> [RegionConfigs |-> doc.regionConfigs],
              Components |-> NoComponents]

InitRelease ==
    /\ raw = NoRaw
    /\ Unstarted
    /\ input \in ReleaseInputs
    /\ output = NoOutput

\* One decoding of a release document.
EvalUnmarshalYAML ==
    /\ input.fn = "UnmarshalYAML"
    /\ ~output.done
    /\ output' = [done |-> TRUE, ret |-> UnmarshalYAML(input.arg)]
    /\ UNCHANGED <<raw, stage, validated, opts, storage, pageSize, inv, hist, input>>

NextRelease == EvalUnmarshalYAML

SpecRelease == InitRelease /\ [][NextRelease]_vars

\* ================================================================ properties
Searches == {p \in Invs : inv[p].call = "last"}
Returned(p) == inv[p].pc = "done"
Leaving(p) == inv[p].pc \in {"deferred", "done"}
Ceil(a, b) == (a + b - 1) \div b
Windows(p) == 1..Len(hist[p])

\* C1: whatever LastReleaseDeployment returns (a deployment,
\* ErrNoDeploymentsFound or the error of a window's query), Since and Until of
\* the shared ListOptions are, after the call, what they were before it.
C1_WindowRestored ==
    \A p \in Searches :
        Returned(p) =>
            /\ opts.ListOptions.Since = raw.RawOptions.Since
            /\ opts.ListOptions.Until = raw.RawOptions.Until

\* A search that wrote two windows, ended on a query error and left a
\* configured, non-zero window behind.
C1_Witness ==
    \E p \in Searches :
        /\ Returned(p)
        /\ inv[p].ret.kind = "error"
        /\ Len(hist[p]) = 2
        /\ opts.ListOptions.Since = 6
        /\ opts.ListOptions.Until = 8

\* C2: when window k, counted back from the anchor and within the first
\* ceil(maxLookback/step) windows, is the first whose execution yields a
\* deployment, the search has executed ListReleaseDeployments exactly k times,
\* queries nothing after it and returns the first deployment of that window.
C2_FirstHitEndsSearch ==
    \A p \in Searches : \A k \in Windows(p) :
        (/\ k <= Ceil(opts.MaxLookback, opts.Step)
         /\ Len(hist[p][k].deployments) > 0
         /\ \A j \in 1..(k - 1) : Len(hist[p][j].deployments) = 0)
        => /\ Len(hist[p]) = k
           /\ Leaving(p)
           /\ inv[p].ret = [kind |-> "deployment", value |-> <<hist[p][k].deployments[1]>>]

\* A search that found nothing in its first window and two deployments in its
\* second, and returned.
C2_Witness ==
    \E p \in Searches :
        /\ Returned(p)
        /\ Len(hist[p]) = 2
        /\ Len(hist[p][1].deployments) = 0
        /\ Len(hist[p][2].deployments) = 2
        /\ inv[p].ret.kind = "deployment"

\* C3: when every window's execution returns no deployment and no error, the
\* search makes exactly ceil(maxLookback/step) executions, for every validated
\* step and maxLookback, and then returns ErrNoDeploymentsFound.
C3_ExhaustedAfterCeil ==
    \A p \in Searches :
        (\A k \in Windows(p) : ~hist[p][k].err /\ Len(hist[p][k].deployments) = 0)
        => /\ Len(hist[p]) <= Ceil(opts.MaxLookback, opts.Step)
           /\ Leaving(p) => /\ inv[p].ret.kind = "ErrNoDeploymentsFound"
                            /\ Len(hist[p]) = Ceil(opts.MaxLookback, opts.Step)

Decodable(b) == b.kind \in {"ok", "noreg"}

\* C4: the deployment a search returns is the most recent one: no release
\* blob that downloads and decodes lies after it and before the anchor,
\* whatever the limit and whichever candidates fail to decode.
C4_MostRecentReturned ==
    \A p \in Searches :
        (Leaving(p) /\ inv[p].ret.kind = "deployment")
        => ~\E i \in 1..Len(storage) :
                /\ Decodable(storage[i])
                /\ storage[i].ts > inv[p].ret.value[1].ts
                /\ storage[i].ts < inv[p].end

\* C5: no window of a search starts before anchor - maxLookback, and no
\* deployment older than that is returned.
C5_WithinLookback ==
    \A p \in Searches :
        /\ \A k \in Windows(p) :
              hist[p][k].window.Since >= inv[p].end - opts.MaxLookback
        /\ (Leaving(p) /\ inv[p].ret.kind = "deployment")
           => inv[p].ret.value[1].ts >= inv[p].end - opts.MaxLookback

\* C6: a configuration with step <= 0, maxLookback <= 0 or maxLookback < step
\* is rejected before any storage query; no search ever runs with such values.
C6_BadSearchConfigRejected ==
    /\ (raw.Step <= 0 \/ raw.MaxLookback <= 0 \/ raw.MaxLookback < raw.Step)
       => /\ stage \in {"raw", "rejected"}
          /\ \A p \in Invs : inv[p].pc = "idle" /\ hist[p] = <<>>
    /\ \A p \in Searches :
          opts.Step > 0 /\ opts.MaxLookback > 0 /\ opts.MaxLookback >= opts.Step

\* Options whose list part is valid and whose lookback is positive but shorter
\* than the positive step have been rejected.
C6_Witness ==
    /\ stage = "rejected"
    /\ ListValidate(raw.RawOptions)
    /\ raw.Step > 0
    /\ raw.MaxLookback > 0
    /\ raw.MaxLookback < raw.Step

\* The executions of ListReleaseDeployments made so far.
Executions == UNION {{hist[p][k] : k \in Windows(p)} : p \in Invs}
Candidates(r) == 1..Len(r.ranked)
KindOf(r, i) == storage[r.ranked[i]].kind
Fetched(r, i, file) ==
    \E n \in 1..Len(r.downloads) : r.downloads[n] = [blob |-> r.ranked[i], file |-> file]

\* C7: with component inclusion requested, a candidate whose components
\* manifest cannot be downloaded or extracted makes ListReleaseDeployments
\* return an error; the candidate is not skipped.
C7_ComponentsFailureFatal ==
    \A r \in Executions :
        (\E i \in Candidates(r) :
            KindOf(r, i) = "comp" /\ Fetched(r, i, ConfigFileName)) => r.err

Parsed(r, i) ==
    \/ KindOf(r, i) \in {"ok", "noreg"}
    \/ KindOf(r, i) = "comp" /\ ~opts.ListOptions.IncludeComponents

\* C8: when the release document of a candidate after the limit does not
\* decode, only that candidate is left out: the call returns no error and its
\* result holds, in ranked order, every other such candidate whose release was
\* downloaded and decoded (with its components, when they are requested).
C8_DecodeFailureSkipsOne ==
    \A r \in Executions :
        (\E i \in Candidates(r) : KindOf(r, i) = "dec")
        => /\ ~r.err
           /\ [n \in 1..Len(r.deployments) |-> r.deployments[n].blob]
                 = SelectSeq(r.ranked, LAMBDA b : \E i \in Candidates(r) :
                                                     r.ranked[i] = b /\ Parsed(r, i))
           /\ \A n \in 1..(Len(r.deployments) - 1) :
                 r.deployments[n].ts >= r.deployments[n + 1].ts

\* An execution whose first-ranked candidate did not decode and whose second,
\* older one is the only deployment returned.
C8_Witness ==
    \E r \in Executions :
        /\ Len(r.ranked) = 2
        /\ KindOf(r, 1) = "dec"
        /\ storage[r.ranked[1]].ts > storage[r.ranked[2]].ts
        /\ ~r.err
        /\ Len(r.deployments) = 1
        /\ r.deployments[1].blob = r.ranked[2]

\* C9: a release download that fails is the error ListReleaseDeployments
\* returns: no later candidate is downloaded and no result list is returned
\* with a nil error.
C9_DownloadFailureReturned ==
    \A r \in Executions : \A i \in Candidates(r) :
        (KindOf(r, i) = "dl" /\ Fetched(r, i, ReleaseFileName))
        => /\ r.err
           /\ \A j \in Candidates(r) : j > i => ~Fetched(r, j, ReleaseFileName)

\* C10: a failed page request makes ListReleaseDeployments return an error
\* and no deployments, whatever earlier pages yielded, with no further page
\* request and no download; a search ends on it at once, with that error.
C10_ListingFailureFatal ==
    /\ \A r \in Executions :
          r.failed > 0 => /\ r.err
                          /\ r.deployments = <<>>
                          /\ Len(r.markers) = r.failed
                          /\ r.downloads = <<>>
    /\ \A p \in Searches : \A k \in Windows(p) :
          hist[p][k].failed > 0 => /\ k = Len(hist[p])
                                   /\ Leaving(p)
                                   /\ inv[p].ret.kind = "error"

\* A search whose second window lost its second page after the first page
\* had yielded a candidate.
C10_Witness ==
    \E p \in Searches :
        /\ Returned(p)
        /\ Len(hist[p]) = 2
        /\ hist[p][2].failed = 2
        /\ hist[p][2].collected = 1
        /\ inv[p].ret.kind = "error"

\* The names an execution's filter selects in the container, and those of
\* them that are release files with a parsable timestamp tag.
Listed(r) ==
    LET all == MatchingBlobs(r.filter) IN {all[i] : i \in 1..Len(all)}
Eligible(b) == storage[b].kind \notin EntryKindSet

\* C11: with a limit N > 0 and more than N candidates collected, the call
\* returns exactly N deployments: the N candidates with the latest timestamps,
\* in descending order of timestamp.
C11_LimitReturnsLatest ==
    \A r \in Executions :
        LET N == opts.ListOptions.Limit
        IN  (N > 0 /\ r.failed = 0 /\ r.collected > N)
            => /\ Len(r.deployments) = N
               /\ \A n \in 1..N : r.deployments[n].blob = r.ranked[n]
               /\ \A n \in 1..(N - 1) : r.deployments[n].ts >= r.deployments[n + 1].ts
               /\ \A b \in Listed(r) :
                     (Eligible(b) /\ \A n \in 1..N : r.deployments[n].blob # b)
                     => storage[b].ts <= r.deployments[N].ts

\* C13: a search returns ErrNoDeploymentsFound only if none of the windows it
\* queried held a candidate.
C13_NotFoundMeansNothingThere ==
    \A p \in Searches :
        (Leaving(p) /\ inv[p].ret.kind = "ErrNoDeploymentsFound")
        => \A k \in Windows(p) : hist[p][k].collected = 0

\* C12: a listed entry with no timestamp tag, or with one that is not an
\* RFC3339 value, never appears in the result and never makes the call fail;
\* every other entry of its page and of the later pages is still collected.
C12_BadTagSkipped ==
    \A r \in Executions :
        (/\ r.failed = 0
         /\ \E b \in Listed(r) : storage[b].kind \in {"notag", "badtag"})
        => /\ ~r.err
           /\ \A n \in 1..Len(r.deployments) :
                 storage[r.deployments[n].blob].kind \notin {"notag", "badtag"}
           /\ r.candidates = SelectSeq(MatchingBlobs(r.filter), Eligible)

\* A listing of two pages whose first page holds an entry without a usable
\* timestamp tag and then a release, and whose second page holds a release:
\* both releases are returned.
C12_Witness ==
    \E r \in Executions :
        /\ pageSize = 2
        /\ Len(r.markers) = 2
        /\ r.failed = 0
        /\ Len(MatchingBlobs(r.filter)) = 3
        /\ storage[MatchingBlobs(r.filter)[1]].kind \in {"notag", "badtag"}
        /\ ~r.err
        /\ Len(r.deployments) = 2
        /\ {r.deployments[n].blob : n \in 1..2}
              = {MatchingBlobs(r.filter)[2], MatchingBlobs(r.filter)[3]}

\* The offset and the window of the k-th iteration of a search, as that
\* search computes them from its own anchor.
RECURSIVE OffsetAt(_)
OffsetAt(k) == IF k = 1 THEN 0 ELSE NextOffset(OffsetAt(k - 1), opts)
OwnWindow(p, k) ==
    [Since |-> WindowSince(WindowUntil(inv[p].end, OffsetAt(k)), opts),
     Until |-> WindowUntil(inv[p].end, OffsetAt(k))]
Configured == [Since |-> raw.RawOptions.Since, Until |-> raw.RawOptions.Until]

\* C14: invocations on the same Options do not share window state: every
\* query of a search is issued with the window that search computed, every
\* direct listing with the configured window, and once no invocation is
\* running Since and Until are the configured values.
C14_NoSharedWindow ==
    /\ \A p \in Invs : \A k \in Windows(p) :
          hist[p][k].window = IF inv[p].call = "last" THEN OwnWindow(p, k) ELSE Configured
    /\ (stage = "completed" /\ \A p \in Invs : inv[p].pc \in {"idle", "done"})
       => /\ opts.ListOptions.Since = Configured.Since
          /\ opts.ListOptions.Until = Configured.Until

\* The scalar leaves of a node in document order, each with the path that
\* leads to it: mapping keys, and zero-based decimal indices in sequences.
RECURSIVE Flatten(_)
Flatten(ss) == IF ss = <<>> THEN <<>> ELSE Head(ss) \o Flatten(Tail(ss))

RECURSIVE LeavesOf(_, _)
LeavesOf(n, path) ==
    CASE n.Kind = "scalar" -> <<[path |-> path, node |-> n]>>
      [] n.Kind = "mapping" ->
            Flatten([j \in 1..(Len(n.Content) \div 2) |->
                       LeavesOf(n.Content[2 * j], Append(path, n.Content[2 * j - 1].Value))])
      [] n.Kind = "sequence" ->
            Flatten([j \in 1..Len(n.Content) |->
                       LeavesOf(n.Content[j], Append(path, Itoa(j - 1)))])

StringLeaf(l) == l.node.Tag = "!!str" /\ l.node.Value # <<>> /\ Len(l.path) >= 1
KeyOf(l) == Join([i \in 1..(Len(l.path) - 1) |-> KebabCase(l.path[i])], <<".">>)
ValueOf(l) == TrimPrefix(l.node.Value, Sha256Prefix)

Extracted == input.fn = "downloadAndParseComponents" /\ output.done
ExampleDocument ==
    DocumentNode(<<MappingNode(<<ScalarNode("!!str", <<"a">>),
        MappingNode(<<ScalarNode("!!str", <<"b">>),
            MappingNode(<<ScalarNode("!!str", <<"d", "i", "g", "e", "s", "t">>),
                          ScalarNode("!!str", Sha256Prefix \o DeadBeef)>>)>>)>>)>>)

\* C15: every non-empty string leaf reached by a path of one segment or more
\* is stored under the kebab-cased segments of its path but the last, joined
\* with '.', with a leading sha256: removed from its value; the mapping holds
\* these stores and nothing else (of leaves stored under one key, the last in
\* document order), and {a: {b: {digest: "sha256:deadbeef"}}} yields exactly
\* {"a.b": "deadbeef"}.
C15_LeafStoredUnderParentPath ==
    (Extracted /\ input.arg.state = "yaml" /\ Len(input.arg.root.Content) > 0)
    => LET leaves == SelectSeq(LeavesOf(input.arg.root.Content[1], <<>>), StringLeaf)
           components == output.ret.components
       IN  /\ ~output.ret.err
           /\ DOMAIN components = {KeyOf(leaves[i]) : i \in 1..Len(leaves)}
           /\ \A i \in 1..Len(leaves) :
                 (\A j \in (i + 1)..Len(leaves) : KeyOf(leaves[j]) # KeyOf(leaves[i]))
                 => components[KeyOf(leaves[i])] = ValueOf(leaves[i])
           /\ input.arg.root = ExampleDocument
              => components = [k \in {<<"a", ".", "b">>} |-> DeadBeef]

\* The example document has been extracted.
C15_Witness ==
    /\ Extracted
    /\ input.arg.root = ExampleDocument
    /\ DOMAIN output.ret.components = {<<"a", ".", "b">>}

\* C16: a components document whose root is a scalar makes
\* downloadAndParseComponents return an error, as an empty document does; it
\* does not return a mapping with a nil error.
C16_PathlessLeafFatal ==
    (/\ Extracted
     /\ input.arg.state = "yaml"
     /\ \/ Len(input.arg.root.Content) = 0
        \/ input.arg.root.Content[1].Kind = "scalar")
    => output.ret.err

ExactDays(n) ==
    MulAdd(MulAdd(MulAdd(MulAdd(MulAdd(MulAdd(n, 24, 0), 60, 0), 60, 0), 1000, 0), 1000, 0),
           1000, 0)
Parsed64 == input.fn = "ParseDuration" /\ output.done

\* C18: for every string of a decimal integer n and the unit d or w,
\* ParseDuration succeeds and returns exactly n * 24h, or n * 7 * 24h, with
\* no wrap-around of the 64-bit nanosecond count whatever n.
C18_ParseDurationExact ==
    (Parsed64 /\ input.arg.digits # <<>> /\ input.arg.unit \in {"d", "w"})
    => LET n == FromDigits(input.arg.digits, <<>>)
           exact == ExactDays(IF input.arg.unit = "d" THEN n ELSE MulAdd(n, 7, 0))
       IN  /\ ~output.ret.err
           /\ FitsInt64(exact)
           /\ Normalize(output.ret.d) = Normalize(exact)

Formatted == input.fn = "FormatRelativeTime" /\ output.done
Count(n, unit) == IF n = 1 THEN "1 " \o unit ELSE ToString(n) \o " " \o unit \o "s"

\* C19: below 29 days FormatRelativeTime returns "less than a minute" below a
\* minute, the whole minutes below an hour, the whole hours below 24 hours
\* and the whole days from 1 to 28 above, in the singular for a count of one;
\* 59s, 60s, 3599s, 3600s, 23h59m, 24h and 28d give "less than a minute",
\* "1 minute", "59 minutes", "1 hour", "23 hours", "1 day" and "28 days".
C19_FormatBelow29Days ==
    (Formatted /\ input.arg < 29 * 24 * Hour)
    => LET d == input.arg
       IN  /\ output.ret =
                 IF d < Minute THEN "less than a minute"
                 ELSE IF d < Hour THEN Count(d \div Minute, "minute")
                 ELSE IF d < 24 * Hour THEN Count(d \div Hour, "hour")
                 ELSE Count(d \div (24 * Hour), "day")
           /\ d = 59 * Second => output.ret = "less than a minute"
           /\ d = 60 * Second => output.ret = "1 minute"
           /\ d = 3599 * Second => output.ret = "59 minutes"
           /\ d = 3600 * Second => output.ret = "1 hour"
           /\ d = 23 * Hour + 59 * Minute => output.ret = "23 hours"
           /\ d = 24 * Hour => output.ret = "1 day"
           /\ d = 28 * 24 * Hour => output.ret = "28 days"

\* A span one second short of an hour has been formatted as 59 minutes.
C19_Witness ==
    /\ Formatted
    /\ input.arg = 3599 * Second
    /\ output.ret = "59 minutes"

\* C20: a duration of 29 days is formatted as "4 weeks".
C20_TwentyNineDaysIsFourWeeks ==
    (Formatted /\ input.arg = 29 * 24 * Hour) => output.ret = "4 weeks"

Decoded == input.fn = "UnmarshalYAML" /\ output.done
LegacyNames == {"revision", "upstreamRevision"}
CanonicalNames == {"pipelineRevision", "sourceRevision"}
\* The document that carries the same two values under the canonical names.
Canonical(doc) ==
    [doc EXCEPT !.fields = [key \in CanonicalNames |->
                              IF key = "sourceRevision"
                              THEN doc.fields["upstreamRevision"]
                              ELSE doc.fields["revision"]]]

\* C21: a release document with the keys upstreamRevision and revision
\* decodes to sourceRevision = upstreamRevision and pipelineRevision =
\* revision, and the document with the same two values under the keys
\* sourceRevision and pipelineRevision decodes to the same ReleaseId.
C21_LegacyDecodesAsCanonical ==
    (Decoded /\ input.arg.decodes /\ DOMAIN input.arg.fields = LegacyNames)
    => /\ ~output.ret.err
       /\ output.ret.Metadata.ReleaseId =
             [SourceRevision |-> input.arg.fields["upstreamRevision"],
              PipelineRevision |-> input.arg.fields["revision"]]
       /\ UnmarshalYAML(Canonical(input.arg)).Metadata.ReleaseId
             = output.ret.Metadata.ReleaseId

\* The deployments handed back so far: those of every execution of
\* ListReleaseDeployments and those the invocations returned.
HandedBack ==
    UNION {{r.deployments[i] : i \in 1..Len(r.deployments)} : r \in Executions}
      \cup UNION {{inv[p].ret.value[i] : i \in 1..Len(inv[p].ret.value)} : p \in Invs}

\* C22: every deployment ListReleaseDeployments or LastReleaseDeployment
\* returns has a Components mapping that is not nil, and an empty one when
\* component inclusion is off or the release names no region.
C22_ComponentsNeverNil ==
    \A d \in HandedBack :
        /\ d.components # "nil"
        /\ (~opts.ListOptions.IncludeComponents \/ d.regions = 0) => d.components = "empty"

\* The latest execution of each invocation.  Every execution is the latest
\* one in the state that records it, and the container and the page size do
\* not change afterwards.
Latest == {hist[p][Len(hist[p])] : p \in {q \in Invs : hist[q] # <<>>}}

\* The response of the service to request k of an execution.
Response(r, k) == FilterBlobs(r.filter, r.markers[k])
ReleaseDownloads(r) == SelectSeq(r.downloads, LAMBDA c : c.file = ReleaseFileName)

\* C23: in every execution of ListReleaseDeployments the first listing
\* request carries no marker and each later one the marker of the response
\* before it; the requests end with the first response without a marker (or
\* with the request that fails); nothing is downloaded unless that last page
\* was received; the release documents are then downloaded candidate by
\* candidate in the ranked order, latest timestamp first, each components
\* manifest right after its release document.
C23_PagesInOrderThenDownloads ==
    \A r \in Latest :
        LET n == Len(r.markers)
            last == Response(r, n).NextMarker
        IN  /\ n >= 1
            /\ r.markers[1] = NoMarker
            /\ \A k \in 2..n :
                  /\ Response(r, k - 1).NextMarker # NoMarker
                  /\ r.markers[k] = Response(r, k - 1).NextMarker
            /\ r.err <=> r.failed = n
            /\ ~r.err => last = NoMarker
            /\ r.downloads # <<>> => (~r.err /\ last = NoMarker)
            /\ [i \in 1..Len(ReleaseDownloads(r)) |-> ReleaseDownloads(r)[i].blob] = r.ranked
            /\ \A a \in 1..Len(r.downloads) :
                  r.downloads[a].file = ConfigFileName
                  => /\ a > 1
                     /\ r.downloads[a - 1] = [blob |-> r.downloads[a].blob,
                                              file |-> ReleaseFileName]
            /\ \A a, b \in 1..Len(r.downloads) :
                  a < b => storage[r.downloads[a].blob].ts >= storage[r.downloads[b].blob].ts

\* A listing of two pages has been followed by the downloads of two releases
\* of different timestamps, one of them with its components manifest.
C23_Witness ==
    \E r \in Latest :
        /\ Len(r.markers) = 2
        /\ Len(r.ranked) = 2
        /\ storage[r.ranked[1]].ts > storage[r.ranked[2]].ts
        /\ \E a \in 1..Len(r.downloads) : r.downloads[a].file = ConfigFileName

\* The instants a timestamp tag is taken from, and whether the filter of an
\* execution selects a blob tagged with one of them.
Instants == (0 - 2 * MaxDuration)..(NowT + 2 * MaxDuration)
Selects(r, t) == \A c \in 1..Len(r.filter) : ClauseHolds([ts |-> t], r.filter[c])

\* C24: the k-th query of a search (k = 1, 2, ...) selects exactly the
\* timestamps of the half-open window [anchor - k*step, anchor - (k-1)*step),
\* the anchor being the configured Until, or the current instant when Until is
\* not set: the windows lie side by side without overlap, each timestamp of
\* [anchor - n*step, anchor) is selected by exactly one of the first n
\* queries, and the anchor itself by none.
C24_WindowsTileLookback ==
    \A p \in Searches :
        /\ inv[p].end = IF IsZero(Configured.Until) THEN NowT ELSE Configured.Until
        /\ \A k \in Windows(p) : \A t \in Instants :
              Selects(hist[p][k], t)
              <=> (inv[p].end - k * opts.Step <= t /\ t < inv[p].end - (k - 1) * opts.Step)

\* The bounds an execution's filter puts on the timestamp tag.
Bound(r, operator) ==
    LET c == CHOOSE c \in 1..Len(r.filter) :
                 r.filter[c].key = "timestamp" /\ r.filter[c].operator = operator
    IN  r.filter[c].value

C26_KeysUniquePerLeaf ==
    (Extracted /\ input.arg.state = "yaml" /\ Len(input.arg.root.Content) > 0)
    => LET leaves == SelectSeq(LeavesOf(input.arg.root.Content[1], <<>>), StringLeaf)
       IN  /\ \A i, j \in 1..Len(leaves) : i # j => KeyOf(leaves[i]) # KeyOf(leaves[j])
           /\ Cardinality(DOMAIN output.ret.components) = Len(leaves)

Units == {"minute", "hour", "day", "week", "month", "year"}

\* C27: for a duration of a minute or more FormatRelativeTime returns a
\* phrase whose count is at least 1, never "0 months" or "0 years".
C27_CountAtLeastOne ==
    (Formatted /\ input.arg >= Minute)
    => /\ \A u \in Units : output.ret # Count(0, u)
       /\ \E n \in 1..(MaxCount + 1) : \E u \in Units : output.ret = Count(n, u)
====
